---- MODULE Spec2Model ----
(***************************************************************************)
(* peak-reencode: per-file classification and correction of PEAK GPS       *)
(* recordings (src/src/peak-reencode.cpp).                                 *)
(*                                                                         *)
(* A recording is a sequence of Envelopes [dataType, sampleTime, payload]. *)
(* processRecFile scans a file once in on-disk order to classify it, then  *)
(* either copies it or replays it through cluon::Player (ordered by        *)
(* sampleTime) and rewrites, drops or passes through each Envelope.        *)
(*                                                                         *)
(* float and double values are modelled as decimal numbers m * 10^e, kept  *)
(* normalised so that two values are equal as records exactly when they    *)
(* are the same number; the arithmetic below is exact on them.             *)
(***************************************************************************)
EXTENDS Integers, Sequences, FiniteSets, TLC

----------------------------------------------------------------------------
(* Bounds of the model.                                                    *)

\* Longest free part of a recording, in Envelopes.
MaxLen == 3

\* How often the batch is run on the same input and output folders.
MaxRuns == 2

\* Most .rec files of an input tree that holds several.
MaxFiles == 2

----------------------------------------------------------------------------
(* Decimal numbers.                                                        *)

RECURSIVE Pow10(_)
Pow10(n) == IF n <= 0 THEN 1 ELSE 10 * Pow10(n - 1)

RECURSIVE Norm(_, _)
Norm(m, e) ==
  IF m = 0 THEN [m |-> 0, e |-> 0]
  ELSE IF m % 10 = 0 THEN Norm(m \div 10, e + 1)
  ELSE [m |-> m, e |-> e]

D(m, e) == Norm(m, e)

MinE(a, b) == IF a.e < b.e THEN a.e ELSE b.e

\* The mantissa of a once it is written with exponent lo <= a.e.
Mant(a, lo) == a.m * Pow10(a.e - lo)

DecAdd(a, b) == Norm(Mant(a, MinE(a, b)) + Mant(b, MinE(a, b)), MinE(a, b))
DecSub(a, b) == Norm(Mant(a, MinE(a, b)) - Mant(b, MinE(a, b)), MinE(a, b))
DecMul(a, b) == Norm(a.m * b.m, a.e + b.e)
DecAbs(a) == [m |-> IF a.m < 0 THEN 0 - a.m ELSE a.m, e |-> a.e]
DecGT(a, b) == Mant(a, MinE(a, b)) > Mant(b, MinE(a, b))
DecLT(a, b) == DecGT(b, a)

\* Largest r in lo..hi with r * r <= n (lo * lo <= n < (hi + 1)^2).
RECURSIVE ISqrtIn(_, _, _)
ISqrtIn(n, lo, hi) ==
  IF lo >= hi THEN lo
  ELSE LET mid == (lo + hi + 1) \div 2
       IN IF mid * mid <= n THEN ISqrtIn(n, mid, hi)
          ELSE ISqrtIn(n, lo, mid - 1)

\* std::sqrt of a >= 0: the root of the mantissa at an even exponent. It is
\* exact whenever that mantissa is a perfect square, as it is for every
\* acceleration vector the recordings below hold.
DecSqrt(a) ==
  LET ev == IF a.e % 2 = 0 THEN a ELSE [m |-> a.m * 10, e |-> a.e - 1]
  IN Norm(ISqrtIn(ev.m, 0, 46340), ev.e \div 2)

Zero == D(0, 0)

----------------------------------------------------------------------------
(* Envelopes and message identifiers.                                      *)

SwitchStateReading == "SwitchStateReading"
LegacyAcceleration == "peak.Acceleration"
AccelerationReading == "AccelerationReading"
MagneticFieldReading == "MagneticFieldReading"
AngularVelocityReading == "AngularVelocityReading"
AltitudeReading == "AltitudeReading"
GroundSpeedReading == "GroundSpeedReading"
GeodeticHeadingReading == "GeodeticHeadingReading"
\* Some message this program has no branch for.
OtherMessage == "GeodeticWgs84Reading"

Env(t, time, p) == [dataType |-> t, sampleTime |-> time, payload |-> p]

\* A payload of three axes, and one of a single scalar, given in whole units.
V3(x, y, z) == <<D(x, 0), D(y, 0), D(z, 0)>>
V1(x) == <<x>>

\* What is at a path of the output tree: nothing, or a file of Envelopes.
NoFile == [exists |-> FALSE, records |-> <<>>]
FileOf(records) == [exists |-> TRUE, records |-> records]

----------------------------------------------------------------------------
(* Defect classifier: the scan of lines 51-116.                            *)

\* The scan's accumulators as declared.
AccumulatorInit ==
  [lengthSum |-> Zero,
   xPrev |-> Zero, yPrev |-> Zero, zPrev |-> Zero,
   xChangeMax |-> Zero, yChangeMax |-> Zero, zChangeMax |-> Zero,
   sampleCount |-> 0]

\* if (change > changeMax) changeMax = change
MaxChange(cur, prev, changeMax) ==
  LET change == DecAbs(DecSub(cur, prev))
  IN IF DecGT(change, changeMax) THEN change ELSE changeMax

\* std::sqrt(x * x + y * y + z * z)
Magnitude(x, y, z) ==
  DecSqrt(DecAdd(DecAdd(DecMul(x, x), DecMul(y, y)), DecMul(z, z)))

\* A scan that also compares the first reading, with the initial xPrev of 0.
ScanAccelerationFromZero(a, x, y, z) ==
  [lengthSum |-> DecAdd(a.lengthSum, Magnitude(x, y, z)),
   xPrev |-> x, yPrev |-> y, zPrev |-> z,
   xChangeMax |-> MaxChange(x, a.xPrev, a.xChangeMax),
   yChangeMax |-> MaxChange(y, a.yPrev, a.yChangeMax),
   zChangeMax |-> MaxChange(z, a.zPrev, a.zChangeMax),
   sampleCount |-> a.sampleCount + 1]

\* The body of the scan loop for an AccelerationReading with axes x, y, z.
ScanAcceleration(a, x, y, z) ==
  [lengthSum |-> DecAdd(a.lengthSum, Magnitude(x, y, z)),
   xPrev |-> x, yPrev |-> y, zPrev |-> z,
   xChangeMax |-> IF a.sampleCount # 0 THEN MaxChange(x, a.xPrev, a.xChangeMax)
                  ELSE a.xChangeMax,
   yChangeMax |-> IF a.sampleCount # 0 THEN MaxChange(y, a.yPrev, a.yChangeMax)
                  ELSE a.yChangeMax,
   zChangeMax |-> IF a.sampleCount # 0 THEN MaxChange(z, a.zPrev, a.zChangeMax)
                  ELSE a.zChangeMax,
   sampleCount |-> a.sampleCount + 1]

\* A scan that takes the legacy accelerations into account as well.
QualifiesWithLegacy(e) ==
  e.dataType \in {AccelerationReading, LegacyAcceleration}

\* Whether the scan takes the Envelope into account.
Qualifies(e) == e.dataType = AccelerationReading

ScanEnvelope(a, e) ==
  IF Qualifies(e)
  THEN ScanAcceleration(a, e.payload[1], e.payload[2], e.payload[3])
  ELSE a

\* lengthSum / sampleCount in double arithmetic, kept as the quotient it is:
\* 0.0 / 0 is NaN and every comparison with NaN is false; a positive sum over
\* 0 is +infinity.
Mean(sum, count) == [sum |-> sum, count |-> count]
IsNaN(q) == q.count = 0 /\ q.sum = Zero
MeanGT(q, c) ==
  IF q.count = 0 THEN DecGT(q.sum, Zero)
  ELSE DecGT(q.sum, DecMul(c, D(q.count, 0)))
MeanLT(q, c) ==
  IF q.count = 0 THEN FALSE
  ELSE DecLT(q.sum, DecMul(c, D(q.count, 0)))

BrokenPatchChange == D(2500, 0)
SiMeanLow == D(1000, 0)
SiMeanHigh == D(1060, 0)

BrokenPatchVerdict(a) ==
  \/ DecGT(a.xChangeMax, BrokenPatchChange)
  \/ DecGT(a.yChangeMax, BrokenPatchChange)
  \/ DecGT(a.zChangeMax, BrokenPatchChange)

\* A verdict on the mean alone.
BeforeSiPatchVerdictUnguarded(broken, lengthMean) ==
  MeanGT(lengthMean, SiMeanLow) /\ MeanLT(lengthMean, SiMeanHigh)

\* isBeforeSiPatch is declared false and assigned only if (!isFromBrokenPatch).
BeforeSiPatchVerdict(broken, lengthMean) ==
  IF ~broken
  THEN MeanGT(lengthMean, SiMeanLow) /\ MeanLT(lengthMean, SiMeanHigh)
  ELSE FALSE

\* A verdict that forgets the switch states.
FineVerdictOfTwo(before, broken, remove) == ~before /\ ~broken

FineVerdict(before, broken, remove) == ~before /\ ~broken /\ ~remove

----------------------------------------------------------------------------
(* cluon::Player: every Envelope of the file, ordered by sampleTime. Its    *)
(* index is a multimap keyed by the sample time stamp, filled in on-disk    *)
(* order, so Envelopes of equal sampleTime stay in on-disk order.           *)

RECURSIVE InsertByTime(_, _)
InsertByTime(e, s) ==
  IF s = <<>> THEN <<e>>
  ELSE IF Head(s).sampleTime <= e.sampleTime
       THEN <<Head(s)>> \o InsertByTime(e, Tail(s))
       ELSE <<e>> \o s

RECURSIVE PlayerIndex(_)
PlayerIndex(file) ==
  IF file = <<>> THEN <<>>
  ELSE InsertByTime(file[Len(file)], PlayerIndex(SubSeq(file, 1, Len(file) - 1)))

----------------------------------------------------------------------------
(* Correction engine: the body of the replay loop, lines 192-423.          *)

\* 9.80665f / 1000.f and 1e-6f
mG_to_mps2 == D(980665, 0 - 8)
mT_to_T == D(1, 0 - 6)

AccelerationLimit == D(1250, 0)
AccelerationOffset == D(2512874, 0 - 3)
MagneticFieldLimit == D(1, 0 - 2)
MagneticFieldOffset == D(196605, 0 - 7)
DropShare == D(98, 0 - 2)
HeadingEpsilon == D(1, 0 - 3)

\* The temp buffer to remove duplicated values, as declared (lines 167-190).
DedupInit ==
  [foundAngularVelocityReading |-> FALSE,
   prevAngularVelocityX |-> Zero,
   prevAngularVelocityY |-> Zero,
   prevAngularVelocityZ |-> Zero,
   skippedAngularVelocityReadingsCounter |-> 0,
   foundMagneticFieldReading |-> FALSE,
   prevMagneticFieldX |-> Zero,
   prevMagneticFieldY |-> Zero,
   prevMagneticFieldZ |-> Zero,
   skippedMagneticFieldReadingsCounter |-> 0,
   foundAltitudeReading |-> FALSE,
   prevAltitude |-> Zero,
   skippedAltitudeReadingsCounter |-> 0,
   foundGroundSpeedReading |-> FALSE,
   prevGroundSpeed |-> Zero,
   skippedGroundSpeedReadingsCounter |-> 0,
   foundGeodeticHeadingReading |-> FALSE,
   prevGeodeticHeading |-> Zero,
   skippedGeodeticHeadingReadingsCounter |-> 0]

\* What one pass of the loop body yields: whether the Envelope reaches the
\* write at the end of the body, the Envelope as re-encoded, the buffer.
Written(e, d) == [write |-> TRUE, e |-> e, d |-> d]
Skipped(e, d) == [write |-> FALSE, e |-> e, d |-> d]

\* The test with the flag negated.
RemovesSwitchStateNegated(e, remove) == e.dataType = SwitchStateReading /\ ~remove

\* e.dataType() == SwitchStateReading::ID() && removeSwitchStateReadings
RemovesSwitchState(e, remove) == e.dataType = SwitchStateReading /\ remove

\* An axis times a conversion constant.
Scaled(p, k) == <<DecMul(p[1], k), DecMul(p[2], k), DecMul(p[3], k)>>

\* if (x > limit) x -= offset
OffsetAxis(x, limit, offset) == IF DecGT(x, limit) THEN DecSub(x, offset) ELSE x

\* A correction of all three axes on the test of the first.
OffsetAxesTogether(p, limit, offset) ==
  IF DecGT(p[1], limit)
  THEN <<DecSub(p[1], offset), DecSub(p[2], offset), DecSub(p[3], offset)>>
  ELSE p

OffsetAxes(p, limit, offset) ==
  <<OffsetAxis(p[1], limit, offset),
    OffsetAxis(p[2], limit, offset),
    OffsetAxis(p[3], limit, offset)>>

\* _new of an acceleration message (lines 206-230 and 241-265).
NewAcceleration(old, before, broken) ==
  IF broken THEN OffsetAxes(old, AccelerationLimit, AccelerationOffset)
  ELSE IF before THEN Scaled(old, mG_to_mps2)
  ELSE old

\* _new of a MagneticFieldReading (lines 295-319).
NewMagneticField(old, before, broken) ==
  IF broken THEN OffsetAxes(old, MagneticFieldLimit, MagneticFieldOffset)
  ELSE IF before THEN Scaled(old, mT_to_T)
  ELSE old

\* A test for the whole vector being repeated.
AllAxesRepeat(x, y, z, px, py, pz) == x = px /\ y = py /\ z = pz

\* memcmp(&x, &prevX, 8) == 0 || ... on the three axes.
AnyAxisRepeats(x, y, z, px, py, pz) == x = px \/ y = py \/ z = pz

\* A test that fires on a sudden rise as well.
SuddenChange(x, prev) ==
  DecGT(DecAbs(DecSub(prev, x)), DecMul(DropShare, DecAbs(prev)))

\* prev - x > 0.98 * std::abs(prev), and memcmp(&x, &prev, 8) == 0.
SuddenDrop(x, prev) == DecGT(DecSub(prev, x), DecMul(DropShare, DecAbs(prev)))
Repeats(x, prev) == x = prev

\* A test without std::abs.
NearZeroHeadingSigned(x) == DecLT(x, HeadingEpsilon)

\* std::abs(x) < 0.001
NearZeroHeading(x) == DecLT(DecAbs(x), HeadingEpsilon)

ReplayMagneticField(e, before, broken, d) ==
  LET x == e.payload[1]
      y == e.payload[2]
      z == e.payload[3]
  IN IF /\ d.foundMagneticFieldReading
        /\ AnyAxisRepeats(x, y, z, d.prevMagneticFieldX, d.prevMagneticFieldY,
                          d.prevMagneticFieldZ)
     THEN Skipped(e, [d EXCEPT !.skippedMagneticFieldReadingsCounter = @ + 1])
     ELSE Written([e EXCEPT !.payload = NewMagneticField(@, before, broken)],
                  [d EXCEPT !.foundMagneticFieldReading = TRUE,
                            !.prevMagneticFieldX = x,
                            !.prevMagneticFieldY = y,
                            !.prevMagneticFieldZ = z])

ReplayAngularVelocity(e, d) ==
  LET x == e.payload[1]
      y == e.payload[2]
      z == e.payload[3]
  IN IF /\ d.foundAngularVelocityReading
        /\ AnyAxisRepeats(x, y, z, d.prevAngularVelocityX, d.prevAngularVelocityY,
                          d.prevAngularVelocityZ)
     THEN Skipped(e, [d EXCEPT !.skippedAngularVelocityReadingsCounter = @ + 1])
     ELSE Written(e, [d EXCEPT !.foundAngularVelocityReading = TRUE,
                               !.prevAngularVelocityX = x,
                               !.prevAngularVelocityY = y,
                               !.prevAngularVelocityZ = z])

\* A filter of altitudes that compares with the altitude read last, written
\* or not.
ReplayAltitudeLastRead(e, d) ==
  LET x == e.payload[1]
  IN IF /\ d.foundAltitudeReading
        /\ (SuddenDrop(x, d.prevAltitude) \/ Repeats(x, d.prevAltitude))
     THEN Skipped(e, [d EXCEPT !.skippedAltitudeReadingsCounter = @ + 1,
                               !.prevAltitude = x])
     ELSE Written(e, [d EXCEPT !.foundAltitudeReading = TRUE, !.prevAltitude = x])

ReplayAltitude(e, d) ==
  LET x == e.payload[1]
  IN IF /\ d.foundAltitudeReading
        /\ (SuddenDrop(x, d.prevAltitude) \/ Repeats(x, d.prevAltitude))
     THEN Skipped(e, [d EXCEPT !.skippedAltitudeReadingsCounter = @ + 1])
     ELSE Written(e, [d EXCEPT !.foundAltitudeReading = TRUE, !.prevAltitude = x])

ReplayGroundSpeed(e, d) ==
  LET x == e.payload[1]
  IN IF /\ d.foundGroundSpeedReading
        /\ (SuddenDrop(x, d.prevGroundSpeed) \/ Repeats(x, d.prevGroundSpeed))
     THEN Skipped(e, [d EXCEPT !.skippedGroundSpeedReadingsCounter = @ + 1])
     ELSE Written(e, [d EXCEPT !.foundGroundSpeedReading = TRUE,
                               !.prevGroundSpeed = x])

ReplayGeodeticHeading(e, d) ==
  LET x == e.payload[1]
  IN IF NearZeroHeading(x) THEN Skipped(e, d)
     ELSE IF /\ d.foundGeodeticHeadingReading
             /\ (SuddenDrop(x, d.prevGeodeticHeading)
                   \/ Repeats(x, d.prevGeodeticHeading))
     THEN Skipped(e, [d EXCEPT !.skippedGeodeticHeadingReadingsCounter = @ + 1])
     ELSE Written(e, [d EXCEPT !.foundGeodeticHeadingReading = TRUE,
                               !.prevGeodeticHeading = x])

\* A loop body that writes the Envelopes of the kinds it knows and no other.
ReplayEnvelopeOfKnownKinds(e, before, broken, remove, d) ==
  IF RemovesSwitchState(e, remove) THEN Skipped(e, d)
  ELSE IF e.dataType \in {LegacyAcceleration, AccelerationReading}
  THEN Written([e EXCEPT !.payload = NewAcceleration(@, before, broken)], d)
  ELSE IF e.dataType = MagneticFieldReading
  THEN ReplayMagneticField(e, before, broken, d)
  ELSE IF e.dataType = AngularVelocityReading THEN ReplayAngularVelocity(e, d)
  ELSE IF e.dataType = AltitudeReading THEN ReplayAltitude(e, d)
  ELSE IF e.dataType = GroundSpeedReading THEN ReplayGroundSpeed(e, d)
  ELSE IF e.dataType = GeodeticHeadingReading THEN ReplayGeodeticHeading(e, d)
  ELSE Skipped(e, d)

\* One pass of the loop body on Envelope e. An Envelope has one dataType, so
\* of the else-if chain and the three ifs after it at most one branch is taken.
ReplayEnvelope(e, before, broken, remove, d) ==
  IF RemovesSwitchState(e, remove) THEN Skipped(e, d)
  ELSE IF e.dataType \in {LegacyAcceleration, AccelerationReading}
  THEN Written([e EXCEPT !.payload = NewAcceleration(@, before, broken)], d)
  ELSE IF e.dataType = MagneticFieldReading
  THEN ReplayMagneticField(e, before, broken, d)
  ELSE IF e.dataType = AngularVelocityReading THEN ReplayAngularVelocity(e, d)
  ELSE IF e.dataType = AltitudeReading THEN ReplayAltitude(e, d)
  ELSE IF e.dataType = GroundSpeedReading THEN ReplayGroundSpeed(e, d)
  ELSE IF e.dataType = GeodeticHeadingReading THEN ReplayGeodeticHeading(e, d)
  ELSE Written(e, d)

----------------------------------------------------------------------------
(* The program's state.                                                    *)

VARIABLES
  inFiles,      \* the .rec files of the input tree, in traversal order
  outFiles,     \* what is at the same relative paths of the output tree
  run,          \* how often the program was started on these folders
  entry,        \* main: position of the directory iterator
  pc,           \* where control is
  retCode,      \* main: the exit code
  ok,           \* main: what processRecFile returned
  finPos,       \* processRecFile: next Envelope fin reads
  isBeforeSiPatch,
  isFromBrokenPatch,
  removeSwitchStateReadings,
  isFine,
  scan,         \* the scan's accumulators
  lengthMean,
  foutGood,     \* fout.good()
  player,       \* Envelopes the Player has yet to replay
  dedup,        \* the temp buffer to remove duplicated values
  written       \* the Envelopes, as read, that reached the write of line 420

main == <<inFiles, outFiles, run, entry, pc, retCode, ok>>
verdict == <<isBeforeSiPatch, isFromBrokenPatch, removeSwitchStateReadings, isFine>>
scanning == <<finPos, scan, lengthMean>>
replaying == <<foutGood, player, dedup, written>>
vars == <<main, verdict, scanning, replaying>>

\* The file processRecFile is called for.
InFile == inFiles[entry]

\* The state after construction, for one of the input trees `trees` and an
\* empty output tree.
InitTree(trees) ==
  /\ inFiles \in trees
  /\ outFiles = [i \in 1..Len(inFiles) |-> NoFile]
  /\ run = 1
  /\ entry = 0
  /\ pc = "main"
  /\ retCode = 0
  /\ ok = TRUE
  /\ finPos = 1
  /\ isBeforeSiPatch = FALSE
  /\ isFromBrokenPatch = FALSE
  /\ removeSwitchStateReadings = FALSE
  /\ isFine = FALSE
  /\ scan = AccumulatorInit
  /\ lengthMean = Mean(Zero, 0)
  /\ foutGood = TRUE
  /\ player = <<>>
  /\ dedup = DedupInit
  /\ written = <<>>

\* The same for an input tree holding one of `files`.
InitWith(files) == InitTree({<<f>> : f \in files})

----------------------------------------------------------------------------
(* main (lines 464-482).                                                   *)

\* The iterator yields the next .rec file and processRecFile is called.
NextEntry ==
  /\ pc = "main"
  /\ entry < Len(inFiles)
  /\ entry' = entry + 1
  /\ pc' = "start"
  /\ UNCHANGED <<inFiles, outFiles, run, retCode, ok, verdict, scanning, replaying>>

\* The iterator is exhausted: return retCode.
EndOfTree ==
  /\ pc = "main"
  /\ entry = Len(inFiles)
  /\ pc' = "exit"
  /\ UNCHANGED <<inFiles, outFiles, run, entry, retCode, ok, verdict, scanning,
                 replaying>>

\* A loop that goes on to the next file whatever processRecFile returned.
CheckOkGoesOn ==
  /\ pc = "returned"
  /\ pc' = "main"
  /\ UNCHANGED <<inFiles, outFiles, run, entry, retCode, ok, verdict, scanning,
                 replaying>>

\* if (!ok) return -1
CheckOk ==
  /\ pc = "returned"
  /\ IF ok THEN pc' = "main" /\ retCode' = retCode
     ELSE pc' = "exit" /\ retCode' = 0 - 1
  /\ UNCHANGED <<inFiles, outFiles, run, entry, ok, verdict, scanning, replaying>>

\* The program is started again on the same folders.
Rerun ==
  /\ pc \in {"exit", "terminate"}
  /\ run < MaxRuns
  /\ run' = run + 1
  /\ entry' = 0
  /\ retCode' = 0
  /\ pc' = "main"
  /\ UNCHANGED <<inFiles, outFiles, ok, verdict, scanning, replaying>>

----------------------------------------------------------------------------
(* processRecFile (lines 31-434).                                          *)

\* A processRecFile that goes on although the output exists.
ExistsSkipGoesOn ==
  /\ pc = "start"
  /\ outFiles[entry].exists
  /\ isBeforeSiPatch' = FALSE
  /\ isFromBrokenPatch' = FALSE
  /\ removeSwitchStateReadings' = FALSE
  /\ isFine' = TRUE
  /\ scan' = AccumulatorInit
  /\ finPos' = 1
  /\ pc' = "scan"
  /\ UNCHANGED <<inFiles, outFiles, run, entry, retCode, ok, lengthMean, replaying>>

\* Lines 34-43: the output exists, return true.
ExistsSkip ==
  /\ pc = "start"
  /\ outFiles[entry].exists
  /\ ok' = TRUE
  /\ pc' = "returned"
  /\ UNCHANGED <<inFiles, outFiles, run, entry, retCode, verdict, scanning,
                 replaying>>

\* Lines 45-66: open fin; on success declare the verdict and the accumulators.
OpenIn ==
  /\ pc = "start"
  /\ ~outFiles[entry].exists
  /\ \E good \in BOOLEAN :
       IF good
       THEN /\ isBeforeSiPatch' = FALSE
            /\ isFromBrokenPatch' = FALSE
            /\ removeSwitchStateReadings' = FALSE
            /\ isFine' = TRUE
            /\ scan' = AccumulatorInit
            /\ finPos' = 1
            /\ pc' = "scan"
            /\ UNCHANGED ok
       ELSE /\ ok' = FALSE
            /\ pc' = "returned"
            /\ UNCHANGED <<verdict, finPos, scan>>
  /\ UNCHANGED <<inFiles, outFiles, run, entry, retCode, lengthMean, replaying>>

\* Lines 67-107: one round of the scan loop.
ScanStep ==
  /\ pc = "scan"
  /\ finPos <= Len(InFile)
  /\ removeSwitchStateReadings' =
       IF Qualifies(InFile[finPos]) THEN TRUE ELSE removeSwitchStateReadings
  /\ scan' = ScanEnvelope(scan, InFile[finPos])
  /\ finPos' = finPos + 1
  /\ UNCHANGED <<main, isBeforeSiPatch, isFromBrokenPatch, isFine, lengthMean,
                 replaying>>

\* Lines 108-116: fin is at its end; the verdict.
ScanEnd ==
  /\ pc = "scan"
  /\ finPos > Len(InFile)
  /\ lengthMean' = Mean(scan.lengthSum, scan.sampleCount)
  /\ isFromBrokenPatch' = BrokenPatchVerdict(scan)
  /\ isBeforeSiPatch' = BeforeSiPatchVerdict(isFromBrokenPatch', lengthMean')
  /\ isFine' = FineVerdict(isBeforeSiPatch', isFromBrokenPatch',
                           removeSwitchStateReadings)
  /\ pc' = "scanned"
  /\ UNCHANGED <<inFiles, outFiles, run, entry, retCode, ok,
                 removeSwitchStateReadings, finPos, scan, replaying>>

\* A copy that goes through the Player, as the correction pass does.
CopyOfReplayed(file) == FileOf(PlayerIndex(file))

\* What std::filesystem::copy_file leaves at the output path.
CopyOf(file) == FileOf(file)

\* Lines 135-141: copy only. copy_file throws on failure and nothing catches.
CopyFile ==
  /\ pc = "scanned"
  /\ isFine
  /\ \E copied \in BOOLEAN :
       IF copied
       THEN /\ outFiles' = [outFiles EXCEPT ![entry] = CopyOf(InFile)]
            /\ ok' = TRUE
            /\ pc' = "returned"
       ELSE /\ pc' = "terminate"
            /\ UNCHANGED <<outFiles, ok>>
  /\ UNCHANGED <<inFiles, run, entry, retCode, verdict, scanning, replaying>>

\* An OpenOut whose buffer is not declared anew but left as the file before
\* left it.
OpenOutKeepsBuffer ==
  /\ pc = "scanned"
  /\ ~isFine
  /\ \E foutOpens \in BOOLEAN, finGood \in BOOLEAN :
       IF ~foutOpens
       THEN /\ ok' = FALSE
            /\ pc' = "returned"
            /\ UNCHANGED <<outFiles, replaying>>
       ELSE /\ outFiles' = [outFiles EXCEPT ![entry] = FileOf(<<>>)]
            /\ IF ~finGood
               THEN /\ ok' = FALSE
                    /\ pc' = "returned"
                    /\ UNCHANGED replaying
               ELSE /\ foutGood' = TRUE
                    /\ player' = PlayerIndex(InFile)
                    /\ written' = <<>>
                    /\ pc' = "replay"
                    /\ UNCHANGED <<ok, dedup>>
  /\ UNCHANGED <<inFiles, run, entry, retCode, verdict, scanning>>

\* Lines 143-190: rewind fin, open fout (which creates the file), construct
\* the Player and declare the buffer.
OpenOut ==
  /\ pc = "scanned"
  /\ ~isFine
  /\ \E foutOpens \in BOOLEAN, finGood \in BOOLEAN :
       IF ~foutOpens
       THEN /\ ok' = FALSE
            /\ pc' = "returned"
            /\ UNCHANGED <<outFiles, replaying>>
       ELSE /\ outFiles' = [outFiles EXCEPT ![entry] = FileOf(<<>>)]
            /\ IF ~finGood
               THEN /\ ok' = FALSE
                    /\ pc' = "returned"
                    /\ UNCHANGED replaying
               ELSE /\ foutGood' = TRUE
                    /\ player' = PlayerIndex(InFile)
                    /\ dedup' = DedupInit
                    /\ written' = <<>>
                    /\ pc' = "replay"
                    /\ UNCHANGED ok
  /\ UNCHANGED <<inFiles, run, entry, retCode, verdict, scanning>>

\* Lines 192-423: one round of the replay loop. The write is not checked;
\* once it fails the stream stays bad and later writes do nothing.
ReplayStep ==
  /\ pc = "replay"
  /\ player # <<>>
  /\ LET r == ReplayEnvelope(Head(player), isBeforeSiPatch, isFromBrokenPatch,
                             removeSwitchStateReadings, dedup)
     IN /\ player' = Tail(player)
        /\ dedup' = r.d
        /\ IF r.write
           THEN /\ written' = Append(written, Head(player))
                /\ \E stored \in (IF foutGood THEN BOOLEAN ELSE {FALSE}) :
                     /\ foutGood' = stored
                     /\ outFiles' = IF stored
                                    THEN [outFiles EXCEPT ![entry].records =
                                            Append(@, r.e)]
                                    ELSE outFiles
           ELSE UNCHANGED <<written, foutGood, outFiles>>
  /\ UNCHANGED <<inFiles, run, entry, pc, retCode, ok, verdict, scanning>>

\* Lines 424-433: the Player has no more data; close fout, return true.
ReplayEnd ==
  /\ pc = "replay"
  /\ player = <<>>
  /\ ok' = TRUE
  /\ pc' = "returned"
  /\ UNCHANGED <<inFiles, outFiles, run, entry, retCode, verdict, scanning,
                 replaying>>

Next ==
  \/ NextEntry
  \/ EndOfTree
  \/ CheckOk
  \/ Rerun
  \/ ExistsSkip
  \/ OpenIn
  \/ ScanStep
  \/ ScanEnd
  \/ CopyFile
  \/ OpenOut
  \/ ReplayStep
  \/ ReplayEnd

----------------------------------------------------------------------------
(* Recordings.                                                             *)

\* Every sequence over S of length at most n.
SeqsUpTo(S, n) == UNION {[1..k -> S] : k \in 0..n}

\* Message m = [dataType, payload] sampled at `time`.
Msg(t, p) == [dataType |-> t, payload |-> p]
At(m, time) == Env(m.dataType, time, m.payload)

\* The ways to stamp n Envelopes: only the order of the stamps matters to the
\* program, and every order of n stamps, ties included, is one of these.
Stampings(n) == [1..n -> 1..n]

\* The recordings that hold the messages ms in this on-disk order.
Stamped(ms) == {[i \in 1..Len(ms) |-> At(ms[i], st[i])] : st \in Stampings(Len(ms))}

\* The messages in on-disk order, stamped in ascending or in descending order.
InOrder(ms) == [i \in 1..Len(ms) |-> At(ms[i], i)]
Reversed(ms) == [i \in 1..Len(ms) |-> At(ms[i], Len(ms) + 1 - i)]

\* The recordings that open with one of `heads` and go on with at most MaxLen
\* of `messages`, stamped in ascending or in descending order.
FilesOf(heads, messages) ==
  UNION {{InOrder(h \o ms), Reversed(h \o ms)} :
           h \in heads, ms \in SeqsUpTo(messages, MaxLen)}

\* AccelerationReadings. At rest: 1030 mG, and 1000 mG and 1060 mG, the ends
\* of the band of the mean. AccFar is more than 2500 from 0 on the x axis,
\* exactly 2500 from AccEdge and 2501 from AccOver. With AccSmall the mean of
\* AccFar and AccOver (or AccEdge) lies inside the band.
AccRest == Msg(AccelerationReading, V3(0, 0, 1030))
AccLow == Msg(AccelerationReading, V3(600, 800, 0))
AccHigh == Msg(AccelerationReading, V3(0, 0, 1060))
AccFar == Msg(AccelerationReading, V3(2600, 0, 0))
AccEdge == Msg(AccelerationReading, V3(100, 0, 0))
AccOver == Msg(AccelerationReading, V3(99, 0, 0))
AccSmall == Msg(AccelerationReading, V3(0, 0, 400))
Legacy == Msg(LegacyAcceleration, V3(2600, 1200, 0 - 300))
Switch == Msg(SwitchStateReading, <<>>)
Other == Msg(OtherMessage, <<>>)

\* Openings that make a recording fine, only rid of its switch states, not in
\* SI units, and from the broken patch.
FineHead == <<Other>>
PlainHead == <<AccHigh>>
SiHead == <<AccRest>>
BrokenHead == <<AccFar, AccOver>>

\* Recordings to classify.
ClassifyMessages ==
  {AccRest, AccLow, AccHigh, AccFar, AccEdge, AccOver, AccSmall, Legacy, Switch,
   Other}

InitClassify == InitWith(FilesOf({<<>>}, ClassifyMessages))
SpecClassify == InitClassify /\ [][Next]_vars

\* Recordings in every order of their time stamps.
OrderMessages == {AccRest, Switch, Other}

InitOrder ==
  InitWith(UNION {Stamped(ms) : ms \in SeqsUpTo(OrderMessages, MaxLen)})
SpecOrder == InitOrder /\ [][Next]_vars

\* Recordings of three-axis readings. MagB repeats the x axis of MagA alone;
\* MagC repeats the y and z axes of MagB and no axis of MagA.
MagA == Msg(MagneticFieldReading, <<D(2, 0 - 2), D(5, 0 - 3), D(3, 0 - 2)>>)
MagB == Msg(MagneticFieldReading, <<D(2, 0 - 2), D(40, 0), D(50, 0)>>)
MagC == Msg(MagneticFieldReading, <<D(25, 0), D(40, 0), D(50, 0)>>)
GyroA == Msg(AngularVelocityReading, V3(1, 2, 3))
GyroB == Msg(AngularVelocityReading, V3(4, 5, 3))
GyroC == Msg(AngularVelocityReading, V3(4, 7, 8))

VectorMessages == {MagA, MagB, MagC, GyroA, GyroB, GyroC}

InitVector ==
  InitWith(FilesOf({FineHead, PlainHead, SiHead, BrokenHead}, VectorMessages))
SpecVector == InitVector /\ [][Next]_vars

\* Recordings of altitudes and ground speeds. After 100, 1 is a sudden drop
\* and 2 is just not one; after -5, -10 is a sudden drop.
Alt(x) == Msg(AltitudeReading, V1(x))
Speed(x) == Msg(GroundSpeedReading, V1(x))

ScalarMessages ==
  {Alt(D(100, 0)), Alt(D(1, 0)), Alt(D(2, 0)), Alt(D(150, 0)),
   Speed(D(0 - 5, 0)), Speed(D(0 - 10, 0)), Speed(D(0, 0))}

InitScalar == InitWith(FilesOf({FineHead, SiHead}, ScalarMessages))
SpecScalar == InitScalar /\ [][Next]_vars

\* Recordings of headings: two near zero, the smallest that is not, and after
\* 45 a sudden drop to 0.5 and a heading to the other side of north.
Heading(x) == Msg(GeodeticHeadingReading, V1(x))

HeadingMessages ==
  {Heading(D(5, 0 - 4)), Heading(D(0 - 5, 0 - 4)), Heading(D(1, 0 - 3)),
   Heading(D(449, 0 - 1)), Heading(D(45, 0)), Heading(D(5, 0 - 1)),
   Heading(D(0 - 45, 0))}

InitHeading == InitWith(FilesOf({FineHead, SiHead}, HeadingMessages))
SpecHeading == InitHeading /\ [][Next]_vars

----------------------------------------------------------------------------
(* Properties.                                                             *)

\* The Envelopes of a sequence that carry message t.
OfKind(s, t) == SelectSeq(s, LAMBDA e : e.dataType = t)

\* The Envelopes the replay loop has taken from the Player so far.
Replayed == SubSeq(PlayerIndex(InFile), 1, Len(InFile) - Len(player))

\* The output file of the recording being processed.
OutRecords == outFiles[entry].records

\* C1: a recording whose verdict is isFine never enters the correction pass;
\* the step taken for it either leaves a file holding exactly the input's
\* Envelopes in on-disk order and returns true, or fails in copy_file.
C1_FineIsCopiedVerbatim ==
  [][(pc = "scanned" /\ isFine) =>
       /\ pc' # "replay"
       /\ pc' = "returned" => (ok' /\ outFiles'[entry] = FileOf(InFile))]_vars

\* C1 happened: a fine recording whose on-disk order is not its time order
\* was copied as it is.
C1_Witness ==
  /\ pc = "returned" /\ ok /\ isFine /\ run = 1
  /\ Len(InFile) >= 2
  /\ PlayerIndex(InFile) # InFile
  /\ outFiles[entry] = FileOf(InFile)

\* Whether the sampleTimes of a sequence of Envelopes strictly ascend.
StrictlyAscending(s) ==
  \A i \in 1..Len(s) - 1 : s[i].sampleTime < s[i + 1].sampleTime

\* C2, as claimed: at every point of the correction pass the Envelopes written
\* so far are in strictly ascending sampleTime order.
C2_OutputStrictlyAscending == pc = "replay" => StrictlyAscending(OutRecords)

\* After the verdict: the copy, the opening of the output, the replay loop.
Classified == pc \in {"scanned", "replay"}

\* C3: once the scan has produced the verdict, isFine is the conjunction of
\* the three negated defect flags, and no later step of processRecFile on that
\* file changes any of the four flags.
C3_VerdictRelationIsStable ==
  [][/\ Classified' =>
          (isFine' = (~isBeforeSiPatch' /\ ~isFromBrokenPatch'
                        /\ ~removeSwitchStateReadings'))
     /\ Classified => verdict' = verdict]_vars

\* C3 happened: a verdict with a defect flag set has lasted into the replay
\* loop and to its last Envelope.
C3_Witness ==
  /\ pc = "replay" /\ player = <<>> /\ written # <<>>
  /\ isBeforeSiPatch /\ removeSwitchStateReadings /\ ~isFine

\* The AccelerationReadings of a recording, in on-disk order.
Qualifying(file) == OfKind(file, AccelerationReading)

\* C4, as claimed: for a recording without AccelerationReading the mean is not
\* computed with a divisor of zero, and the three defect flags are false and
\* isFine is true.
C4_NoDivisionByZero ==
  (pc = "scanned" /\ Qualifying(InFile) = <<>>) =>
    /\ lengthMean.count # 0
    /\ ~isBeforeSiPatch /\ ~isFromBrokenPatch /\ ~removeSwitchStateReadings
    /\ isFine

\* Whether two payloads differ by more than BrokenPatchChange on some axis.
AxisJump(p, q) ==
  \E i \in 1..3 : DecGT(DecAbs(DecSub(p[i], q[i])), BrokenPatchChange)

\* Whether two consecutive Envelopes of a sequence show such a jump.
HasJump(s) == \E i \in 1..Len(s) - 1 : AxisJump(s[i].payload, s[i + 1].payload)

\* C5: isFromBrokenPatch is true exactly when two AccelerationReadings that
\* are consecutive among the AccelerationReadings in on-disk order differ by
\* more than 2500 on some axis; the first one is compared with nothing.
C5_BrokenPatchIffJump ==
  pc = "scanned" => (isFromBrokenPatch = HasJump(Qualifying(InFile)))

\* The sum of the magnitudes of a sequence of AccelerationReadings.
RECURSIVE SumOfMagnitudes(_)
SumOfMagnitudes(s) ==
  IF s = <<>> THEN Zero
  ELSE DecAdd(Magnitude(Head(s).payload[1], Head(s).payload[2], Head(s).payload[3]),
              SumOfMagnitudes(Tail(s)))

\* Whether the mean magnitude of a non-empty s lies strictly inside the band.
MeanInBand(s) ==
  /\ s # <<>>
  /\ DecGT(SumOfMagnitudes(s), DecMul(SiMeanLow, D(Len(s), 0)))
  /\ DecLT(SumOfMagnitudes(s), DecMul(SiMeanHigh, D(Len(s), 0)))

\* C5 happened: a change of 2501 on one axis gave isFromBrokenPatch although
\* the mean magnitude lies in the band of isBeforeSiPatch.
C5_Witness ==
  /\ pc = "scanned" /\ isFromBrokenPatch
  /\ MeanInBand(Qualifying(InFile))

\* C6: isBeforeSiPatch is true exactly when isFromBrokenPatch is false and the
\* mean magnitude of the AccelerationReadings is strictly between 1000 and
\* 1060 (which it is not when there is none); the two flags are never both true.
C6_BeforeSiPatchIffMeanInBand ==
  pc = "scanned" =>
    /\ isBeforeSiPatch = (~isFromBrokenPatch /\ MeanInBand(Qualifying(InFile)))
    /\ ~(isBeforeSiPatch /\ isFromBrokenPatch)

\* C6 happened: readings of 1000 mG and 1060 mG, neither in the band, have a
\* mean of 1030 mG and gave isBeforeSiPatch.
C6_Witness ==
  /\ pc = "scanned" /\ isBeforeSiPatch /\ ~isFromBrokenPatch
  /\ Len(Qualifying(InFile)) = 2
  /\ \A i \in 1..2 : ~MeanInBand(<<Qualifying(InFile)[i]>>)

\* C7: removeSwitchStateReadings is true iff the recording holds an
\* AccelerationReading, and of the SwitchStateReadings the replay loop has
\* taken from the Player it has written none if the flag is true and all of
\* them if it is false.
C7_SwitchStatesDroppedIffFlag ==
  /\ Classified => (removeSwitchStateReadings = (Qualifying(InFile) # <<>>))
  /\ pc = "replay" =>
       Len(OfKind(written, SwitchStateReading)) =
         IF removeSwitchStateReadings THEN 0
         ELSE Len(OfKind(Replayed, SwitchStateReading))

\* C7 happened: the replay loop took a SwitchStateReading and other messages
\* from the Player, and wrote only the others.
C7_Witness ==
  /\ pc = "replay" /\ player = <<>>
  /\ removeSwitchStateReadings
  /\ OfKind(Replayed, SwitchStateReading) # <<>>
  /\ Len(written) = Len(Replayed) - Len(OfKind(Replayed, SwitchStateReading))
  /\ written # <<>>

\* The payloads of the Envelopes of a sequence that carry message t.
PayloadsOf(s, t) == [i \in 1..Len(OfKind(s, t)) |-> OfKind(s, t)[i].payload]

\* The most recently written Envelope that carries message t, if there is one.
HasKept(t) == OfKind(written, t) # <<>>
LastKept(t) == OfKind(written, t)[Len(OfKind(written, t))]

\* The replay loop is about to take an Envelope carrying one of `kinds`.
Replaying(kinds) ==
  pc = "replay" /\ player # <<>> /\ Head(player).dataType \in kinds

\* The round of the replay loop being taken does not write its Envelope.
Drops == written' = written

\* C8: the replay loop drops a MagneticFieldReading or AngularVelocityReading
\* iff a reading of its kind was written before in this file and at least one
\* of its three axes equals the same axis of the last such reading written.
C8_VectorDroppedIffAnyAxisRepeats ==
  [][Replaying({MagneticFieldReading, AngularVelocityReading}) =>
       LET e == Head(player)
       IN Drops <=>
            /\ HasKept(e.dataType)
            /\ \E i \in 1..3 : e.payload[i] = LastKept(e.dataType).payload[i]]_vars

\* C8 happened: of MagA, MagB and MagC in time order, MagB, which repeats the
\* x axis of MagA alone, was dropped, and MagC, which repeats axes of MagB but
\* none of MagA, was written.
C8_Witness ==
  /\ pc = "replay" /\ player = <<>>
  /\ PayloadsOf(Replayed, MagneticFieldReading)
       = <<MagA.payload, MagB.payload, MagC.payload>>
  /\ PayloadsOf(written, MagneticFieldReading) = <<MagA.payload, MagC.payload>>

\* C9: the replay loop drops an AltitudeReading or GroundSpeedReading of value
\* c iff a reading of its kind was written before in this file, the last one
\* with value p, and p - c > 0.98 * |p| or c equals p; so the first of a kind
\* and one with c > p are written.
C9_ScalarDroppedIffDropOrRepeat ==
  [][Replaying({AltitudeReading, GroundSpeedReading}) =>
       LET e == Head(player)
           c == e.payload[1]
           p == LastKept(e.dataType).payload[1]
       IN /\ Drops <=>
               /\ HasKept(e.dataType)
               /\ \/ DecGT(DecSub(p, c), DecMul(D(98, 0 - 2), DecAbs(p)))
                  \/ c = p
          /\ ~HasKept(e.dataType) => ~Drops
          /\ (HasKept(e.dataType) /\ DecGT(c, p)) => ~Drops]_vars

\* C9 happened: after an altitude of 100, one of 1 was dropped and one of 150
\* was written.
C9_Witness ==
  /\ pc = "replay" /\ player = <<>>
  /\ PayloadsOf(Replayed, AltitudeReading)
       = <<V1(D(100, 0)), V1(D(1, 0)), V1(D(150, 0))>>
  /\ PayloadsOf(written, AltitudeReading) = <<V1(D(100, 0)), V1(D(150, 0))>>

\* C10: the replay loop drops a GeodeticHeadingReading of value c if
\* |c| < 0.001, whether or not a heading was written before; otherwise it drops
\* it iff a heading was written before in this file, the last one with value p,
\* and p - c > 0.98 * |p| or c equals p.
C10_HeadingDroppedIffNearZeroOrDrop ==
  [][Replaying({GeodeticHeadingReading}) =>
       LET e == Head(player)
           c == e.payload[1]
           p == LastKept(e.dataType).payload[1]
       IN IF DecLT(DecAbs(c), D(1, 0 - 3)) THEN Drops
          ELSE Drops <=>
                 /\ HasKept(e.dataType)
                 /\ \/ DecGT(DecSub(p, c), DecMul(D(98, 0 - 2), DecAbs(p)))
                    \/ c = p]_vars

\* C10 happened: a first heading of 0.0005 was dropped, then 44.9 and after
\* it 45.0 were written.
C10_Witness ==
  /\ pc = "replay" /\ player = <<>>
  /\ PayloadsOf(Replayed, GeodeticHeadingReading)
       = <<V1(D(5, 0 - 4)), V1(D(449, 0 - 1)), V1(D(45, 0))>>
  /\ PayloadsOf(written, GeodeticHeadingReading)
       = <<V1(D(449, 0 - 1)), V1(D(45, 0))>>

\* An axis of an acceleration as the broken-patch correction leaves it.
BrokenPatchFixed(x) ==
  IF DecGT(x, D(1250, 0)) THEN DecSub(x, D(2512874, 0 - 3)) ELSE x

\* The round of the replay loop being taken appends an Envelope to the output.
Stores == Len(outFiles'[entry].records) = Len(OutRecords) + 1
Stored == outFiles'[entry].records[Len(OutRecords) + 1]

\* C11: with isFromBrokenPatch set the replay loop writes every
\* LegacyAcceleration and AccelerationReading, and the Envelope it stores has
\* each axis above 1250 lowered by 2512.874 and every other axis as read.
C11_BrokenPatchFixesEachAxis ==
  [][(Replaying({LegacyAcceleration, AccelerationReading}) /\ isFromBrokenPatch) =>
       LET e == Head(player)
       IN /\ written' = Append(written, e)
          /\ Stores =>
               /\ Stored.dataType = e.dataType
               /\ Stored.sampleTime = e.sampleTime
               /\ Stored.payload =
                    [i \in 1..3 |-> BrokenPatchFixed(e.payload[i])]]_vars

\* C11 happened: the output of a recording from the broken patch holds the
\* LegacyAcceleration (2600, 1200, -300) as (87.126, 1200, -300) and the
\* AccelerationReading (2600, 0, 0) as (87.126, 0, 0).
C11_Witness ==
  /\ pc = "replay" /\ isFromBrokenPatch
  /\ \E i \in 1..Len(OutRecords) :
       /\ OutRecords[i].dataType = LegacyAcceleration
       /\ OutRecords[i].payload = <<D(87126, 0 - 3), D(1200, 0), D(0 - 300, 0)>>
  /\ \E i \in 1..Len(OutRecords) :
       /\ OutRecords[i].dataType = AccelerationReading
       /\ OutRecords[i].payload = <<D(87126, 0 - 3), D(0, 0), D(0, 0)>>

----------------------------------------------------------------------------
(* Input trees of several recordings.                                      *)

\* A recording not in SI units, one only rid of its switch states, and a fine
\* one; each holds the altitude 100, the first two the same magnetic field.
SiFile == InOrder(<<AccRest, MagA, Alt(D(100, 0))>>)
PlainFile == InOrder(<<AccHigh, MagA, Alt(D(100, 0))>>)
FineFile == InOrder(<<Switch, Alt(D(100, 0))>>)

BatchFiles == {SiFile, PlainFile, FineFile}

InitBatch == InitTree(UNION {[1..n -> BatchFiles] : n \in 1..MaxFiles})
SpecBatch == InitBatch /\ [][Next]_vars

\* Control is in main or at the entry of processRecFile, or the program ended.
BetweenFiles == pc \in {"main", "start", "returned", "exit"}

\* C12: once processRecFile has returned false the program exits with a
\* non-zero code and leaves the output tree as it is, and until the program is
\* started again nothing else happens; in the first run this leaves every file
\* later in the traversal without output.
C12_FirstFailureEndsTheRun ==
  [][/\ (pc = "returned" /\ ~ok) =>
          (pc' = "exit" /\ retCode' # 0 /\ outFiles' = outFiles)
     /\ pc = "exit" => (run' = run + 1 /\ pc' = "main" /\ outFiles' = outFiles)
     /\ (pc' = "exit" /\ retCode' # 0 /\ run' = 1) =>
          \A j \in entry' + 1..Len(inFiles) : ~outFiles'[j].exists]_vars

\* C12 happened: the first of two files failed and the run ended with -1,
\* the second file without output.
C12_Witness ==
  /\ pc = "exit" /\ retCode = 0 - 1 /\ run = 1
  /\ entry = 1 /\ Len(inFiles) = 2
  /\ ~outFiles[2].exists

\* Every file of the input tree has its output.
AllOutputsExist == \A j \in 1..Len(inFiles) : outFiles[j].exists

\* C13: when the output of a file exists, processRecFile returns true without
\* reading the input (neither the scan nor the replay state changes) and
\* leaves the output tree as it is; so once every output exists, a run
\* processes no file and changes no output.
C13_ExistingOutputIsSkipped ==
  [][/\ (pc = "start" /\ outFiles[entry].exists) =>
          /\ pc' = "returned" /\ ok'
          /\ outFiles' = outFiles
          /\ scanning' = scanning /\ replaying' = replaying /\ verdict' = verdict
     /\ (AllOutputsExist /\ BetweenFiles) =>
          (outFiles' = outFiles /\ BetweenFiles')]_vars

\* C13 happened: a second run over two files, both with their output from
\* the first run, ended with 0.
C13_Witness ==
  /\ run = 2 /\ pc = "exit" /\ retCode = 0
  /\ Len(inFiles) = 2 /\ entry = 2
  /\ \A j \in 1..2 : outFiles[j].exists /\ outFiles[j].records # <<>>

\* C14: a round of the replay loop that keeps its Envelope appends one
\* Envelope to the output in that round unless the write fails, and
\* processRecFile does not return true once a write has failed.
C14_WriteFailureFailsTheFile ==
  [][/\ (pc = "replay" /\ written' # written /\ foutGood') => Stores
     /\ (pc = "replay" /\ ~foutGood) => ~(pc' = "returned" /\ ok')]_vars

\* The accumulators after a scan of `file` that starts from `a`.
RECURSIVE ScanAlone(_, _)
ScanAlone(file, a) ==
  IF file = <<>> THEN a ELSE ScanAlone(Tail(file), ScanEnvelope(a, Head(file)))

\* The verdict on `file` when nothing was processed before it.
VerdictAlone(file) ==
  LET a == ScanAlone(file, AccumulatorInit)
      remove == \E i \in 1..Len(file) : Qualifies(file[i])
      broken == BrokenPatchVerdict(a)
      before == BeforeSiPatchVerdict(broken, Mean(a.lengthSum, a.sampleCount))
  IN <<before, broken, remove, FineVerdict(before, broken, remove)>>

\* The buffer, the Envelopes kept and the Envelopes stored after a replay of
\* `records` under verdict v that starts from s.
RECURSIVE ReplayAlone(_, _, _)
ReplayAlone(records, v, s) ==
  IF records = <<>> THEN s
  ELSE LET r == ReplayEnvelope(Head(records), v[1], v[2], v[3], s.d)
       IN ReplayAlone(Tail(records), v,
                      [d |-> r.d,
                       kept |-> IF r.write THEN Append(s.kept, Head(records))
                                ELSE s.kept,
                       out |-> IF r.write THEN Append(s.out, r.e) ELSE s.out])

\* The replay of the part of the current file the Player has delivered, had
\* the file been processed alone.
ReplayedAlone ==
  ReplayAlone(Replayed, VerdictAlone(InFile),
              [d |-> DedupInit, kept |-> <<>>, out |-> <<>>])

\* C15: wherever the file stands in the traversal, its verdict is the one of
\* the file processed alone, and during the replay the buffer, the Envelopes
\* kept and the output are those of the file processed alone (the output up
\* to the first failed write).
C15_EachFileAsIfAlone ==
  /\ Classified => verdict = VerdictAlone(InFile)
  /\ pc = "replay" =>
       /\ dedup = ReplayedAlone.d
       /\ written = ReplayedAlone.kept
       /\ Len(OutRecords) <= Len(ReplayedAlone.out)
       /\ OutRecords = SubSeq(ReplayedAlone.out, 1, Len(OutRecords))
       /\ foutGood => OutRecords = ReplayedAlone.out

\* C15 happened: the second file has been replayed after a first file that
\* kept the same magnetic field and altitude, and both are in its output.
C15_Witness ==
  /\ pc = "replay" /\ player = <<>> /\ foutGood
  /\ entry = 2 /\ inFiles = <<SiFile, PlainFile>>
  /\ Len(outFiles[1].records) = 3
  /\ HasKept(MagneticFieldReading) /\ HasKept(AltitudeReading)
  /\ Len(OutRecords) = 3

\* C16: when processRecFile has returned false, the file has no output.
C16_FailureLeavesNoOutput ==
  (pc = "returned" /\ ~ok) => ~outFiles[entry].exists

\* C17: once the file is classified, isFine holds exactly when the file has
\* no AccelerationReading, and isBeforeSiPatch or isFromBrokenPatch only with
\* removeSwitchStateReadings; so a file without AccelerationReading never
\* reaches the replay loop, and whatever output it has is the file itself.
C17_FineIffNoAccelerationReading ==
  /\ Classified =>
       /\ isFine = (Qualifying(InFile) = <<>>)
       /\ (isBeforeSiPatch \/ isFromBrokenPatch) => removeSwitchStateReadings
  /\ (entry \in 1..Len(inFiles) /\ Qualifying(InFile) = <<>>) =>
       /\ pc # "replay"
       /\ outFiles[entry].exists => outFiles[entry] = FileOf(InFile)

\* C17 happened: a file of legacy accelerations and nothing else but a switch
\* state was classified as fine and its output is the file as it was.
C17_Witness ==
  /\ pc = "returned" /\ ok /\ run = 1
  /\ OfKind(InFile, LegacyAcceleration) # <<>>
  /\ OfKind(InFile, SwitchStateReading) # <<>>
  /\ Qualifying(InFile) = <<>>
  /\ isFine
  /\ outFiles[entry] = FileOf(InFile)

----------------------------------------------------------------------------
(* Recordings of all five filtered kinds.                                  *)

\* Of each kind a reading and one that is written after it; the second
\* altitude and ground speed are dropped after the first, each reading is
\* dropped after itself, and the heading 0.0005 is dropped wherever it stands.
FilteredMessages ==
  {MagA, MagC, GyroA, GyroC,
   Alt(D(100, 0)), Alt(D(1, 0)), Speed(D(0 - 5, 0)), Speed(D(0 - 10, 0)),
   Heading(D(45, 0)), Heading(D(5, 0 - 4))}

\* The recordings that open with one of `heads` and go on with at most MaxLen
\* of `messages`, stamped in ascending order.
FilesInOrder(heads, messages) ==
  {InOrder(h \o ms) : h \in heads, ms \in SeqsUpTo(messages, MaxLen)}

InitFiltered == InitWith(FilesInOrder({FineHead, SiHead}, FilteredMessages))
SpecFiltered == InitFiltered /\ [][Next]_vars

FilteredKinds ==
  {MagneticFieldReading, AngularVelocityReading, AltitudeReading,
   GroundSpeedReading, GeodeticHeadingReading}

\* The found flag and the previous values the buffer d holds for kind t.
FoundOf(d, t) ==
  CASE t = MagneticFieldReading -> d.foundMagneticFieldReading
    [] t = AngularVelocityReading -> d.foundAngularVelocityReading
    [] t = AltitudeReading -> d.foundAltitudeReading
    [] t = GroundSpeedReading -> d.foundGroundSpeedReading
    [] t = GeodeticHeadingReading -> d.foundGeodeticHeadingReading

PrevOf(d, t) ==
  CASE t = MagneticFieldReading ->
         <<d.prevMagneticFieldX, d.prevMagneticFieldY, d.prevMagneticFieldZ>>
    [] t = AngularVelocityReading ->
         <<d.prevAngularVelocityX, d.prevAngularVelocityY, d.prevAngularVelocityZ>>
    [] t = AltitudeReading -> <<d.prevAltitude>>
    [] t = GroundSpeedReading -> <<d.prevGroundSpeed>>
    [] t = GeodeticHeadingReading -> <<d.prevGeodeticHeading>>

\* The found flags and previous values agree with the Envelopes written.
BufferTracksWritten ==
  \A t \in FilteredKinds :
    /\ FoundOf(dedup, t) = HasKept(t)
    /\ HasKept(t) => PrevOf(dedup, t) = LastKept(t).payload

\* C18: after every step that leaves the program in the replay loop, the
\* found flag of each filtered kind is set iff an Envelope of the kind was
\* written so far and the previous value is the value as read of the last one
\* written; a round that drops its Envelope leaves all of them as they were.
C18_BufferTracksWritten ==
  [][/\ pc' = "replay" => BufferTracksWritten'
     /\ (Replaying(FilteredKinds) /\ Drops) =>
          \A t \in FilteredKinds :
            /\ FoundOf(dedup', t) = FoundOf(dedup, t)
            /\ PrevOf(dedup', t) = PrevOf(dedup, t)]_vars

\* C18 happened: in a recording not in SI units the magnetic field MagA was
\* written and scaled, the buffer holding it as read; the altitude 100 was
\* written, the altitude 1 dropped, and the buffer holds 100.
C18_Witness ==
  /\ pc = "replay" /\ player = <<>> /\ isBeforeSiPatch
  /\ PayloadsOf(written, MagneticFieldReading) = <<MagA.payload>>
  /\ PrevOf(dedup, MagneticFieldReading) = MagA.payload
  /\ PayloadsOf(Replayed, AltitudeReading) = <<V1(D(100, 0)), V1(D(1, 0))>>
  /\ PayloadsOf(written, AltitudeReading) = <<V1(D(100, 0))>>
  /\ dedup.foundAltitudeReading /\ dedup.prevAltitude = D(100, 0)
  /\ ~dedup.foundGeodeticHeadingReading

\* Whether s is t with some of its elements left out.
RECURSIVE IsSubsequence(_, _)
IsSubsequence(s, t) ==
  IF s = <<>> THEN TRUE
  ELSE IF t = <<>> THEN FALSE
  ELSE IF Head(s) = Head(t) THEN IsSubsequence(Tail(s), Tail(t))
  ELSE IsSubsequence(s, Tail(t))

\* The kinds the replay loop has no filter for.
UnfilteredKinds == {LegacyAcceleration, AccelerationReading, OtherMessage}

\* C19: in the replay loop the Envelopes written are a subsequence of those
\* the Player delivered and hold every LegacyAcceleration, AccelerationReading
\* and Envelope of an unlisted kind delivered, once each; the output holds
\* one Envelope per Envelope written, of its kind and sampleTime and in that
\* order (up to the first failed write), an unlisted kind as it was read.
C19_UnfilteredKindsWrittenOnce ==
  pc = "replay" =>
    /\ IsSubsequence(written, Replayed)
    /\ \A t \in UnfilteredKinds : OfKind(written, t) = OfKind(Replayed, t)
    /\ Len(OutRecords) <= Len(written)
    /\ foutGood => Len(OutRecords) = Len(written)
    /\ \A i \in 1..Len(OutRecords) :
         /\ OutRecords[i].dataType = written[i].dataType
         /\ OutRecords[i].sampleTime = written[i].sampleTime
         /\ written[i].dataType = OtherMessage => OutRecords[i] = written[i]

\* C19 happened: a recording of an AccelerationReading, a LegacyAcceleration
\* and an unlisted message was replayed, and the output holds all three.
C19_Witness ==
  /\ pc = "replay" /\ player = <<>> /\ foutGood
  /\ \A t \in UnfilteredKinds : Len(OfKind(Replayed, t)) = 1
  /\ Len(OutRecords) = 3
  /\ \E i \in 1..3 : OutRecords[i].dataType = OtherMessage

\* The skip counter the buffer d holds for kind t.
CounterOf(d, t) ==
  CASE t = MagneticFieldReading -> d.skippedMagneticFieldReadingsCounter
    [] t = AngularVelocityReading -> d.skippedAngularVelocityReadingsCounter
    [] t = AltitudeReading -> d.skippedAltitudeReadingsCounter
    [] t = GroundSpeedReading -> d.skippedGroundSpeedReadingsCounter
    [] t = GeodeticHeadingReading -> d.skippedGeodeticHeadingReadingsCounter

\* C20: when the replay loop has ended, the skip counter of each filtered
\* kind is the number of Envelopes of the kind that were read and not written.
C20_CountersCountTheDropped ==
  (pc = "replay" /\ player = <<>>) =>
    \A t \in FilteredKinds :
      CounterOf(dedup, t) = Len(OfKind(Replayed, t)) - Len(OfKind(written, t))

====
